---- MODULE Spec2Model ----
(***************************************************************************)
(* Finite automata of src/automata.py: word acceptance (process), epsilon  *)
(* closure (handle_closure, epsilon_closure) and the subset construction   *)
(* (convert_to_dfa).                                                       *)
(*                                                                         *)
(* Python strings are sequences of code points: a state name such as "q"   *)
(* is <<113>>, "q,r" is <<113, 44, 114>>; a symbol is one code point, a    *)
(* word a sequence of them.  Python lists are sequences, Python sets are   *)
(* sets, the dict returned by process is a function.                       *)
(***************************************************************************)
EXTENDS Naturals, Sequences, FiniteSets

\* '&', the symbol of an epsilon transition
Amp == 38

\* ',', the separator state_to_str joins with
Comma == 44

\* Longest transition list drawn for an input automaton
MaxDelta == 2

\* Longest word handed to process
MaxWord == 2

\* the longest file, in lines
MaxLines == 5

\* the longest list of words given to process
MaxWords == 2

\* load_automata wants at least this many lines
MinLines == 5

\* the white space of the files: ' ' and '\n'
Space == 32
Newline == 10

\* State names the inputs are drawn from: "q", "r" and "q,r" (split() of the
\* loader keeps a comma inside a token, so "q,r" is one state name)
StateNames == { <<113>>, <<114>>, <<113, 44, 114>> }

\* The declared alphabet of the inputs: "a b"
Symbols == <<97, 98>>

\* Characters of the words: 'a', 'b' and 'c', the last outside the alphabet
WordChars == {97, 98, 99}

\* Python's None (transition found no rule); like "" it is falsy
None == <<>>

Range(s) == { s[i] : i \in DOMAIN s }

\* list(a_set): some enumeration of the set, each member once
RECURSIVE ListOf(_)
ListOf(S) ==
  IF S = {} THEN <<>>
  ELSE LET x == CHOOSE y \in S : TRUE IN <<x>> \o ListOf(S \ {x})

----------------------------------------------------------------------------
\* str < str of Python: lexicographic on code points, a proper prefix first
StrLess(s, t) ==
  \E i \in 1..(Len(s) + 1) :
     /\ i <= Len(t)
     /\ \A j \in 1..(i - 1) : s[j] = t[j]
     /\ (i = Len(s) + 1 \/ s[i] < t[i])

\* sorted(state_set)
RECURSIVE sorted(_)
sorted(S) ==
  IF S = {} THEN <<>>
  ELSE LET m == CHOOSE x \in S : \A y \in S \ {x} : StrLess(x, y)
       IN <<m>> \o sorted(S \ {m})

\* ','.join(list)
RECURSIVE join(_)
join(l) ==
  IF Len(l) = 0 THEN <<>>
  ELSE IF Len(l) = 1 THEN l[1]
  ELSE l[1] \o <<Comma>> \o join(Tail(l))

\* state_to_str: the sorted, comma-joined member names
state_to_str(state_set) == join(sorted(state_set))

----------------------------------------------------------------------------
VARIABLES
  states,            \* the input automaton: list of state names
  alphabet,          \*   list of symbols
  delta,             \*   list of rules <<origin, symbol, destination>>
  initial_state,     \*   name of the initial state
  final_states,      \*   list of accepting state names
  pc,                \* which call is running, or has returned
  new_initial_state, \* convert_to_dfa: the start state-set
  queue,             \* convert_to_dfa: worklist of state-sets
  visited,           \* convert_to_dfa: list of state-sets
  new_delta,         \* convert_to_dfa: list of rules over state-set names
  result,            \* the automaton convert_to_dfa returned
  subject,           \* the automaton handed to process: "input" or "dfa"
  words,             \* process: the word list
  results,           \* process: the returned dict, word -> verdict
  current_state,     \* process: current_state after the last word's walk
  consumed,          \* process: symbols the last word's walk has consumed
  closure_arg,       \* the state-set a closure was asked for
  closure_out,       \* epsilon_closure(closure_arg)
  closure_again,     \* epsilon_closure(closure_out)
  closure_single,    \* handle_closure(s, delta) for each s of closure_arg
  trav_closure,      \* a closure traversal under way: its closure set
  trav_stack,        \* a closure traversal under way: its stack
  file_lines,        \* load_automata: the lines of the file, as read
  load_error         \* load_automata: the message of the exception raised

vars == <<states, alphabet, delta, initial_state, final_states, pc,
          new_initial_state, queue, visited, new_delta, result,
          subject, words, results, current_state, consumed,
          closure_arg, closure_out, closure_again, closure_single,
          trav_closure, trav_stack, file_lines, load_error>>

automatonVars == <<states, alphabet, delta, initial_state, final_states>>
convertVars == <<new_initial_state, queue, visited, new_delta, result>>
processVars == <<subject, words, results, current_state, consumed>>
closureVars == <<closure_arg, closure_out, closure_again, closure_single>>
traversalVars == <<trav_closure, trav_stack>>
loadVars == <<file_lines, load_error>>

----------------------------------------------------------------------------
\* ClosureFor with the push forgotten: a new destination joins the closure
\* and is never expanded
RECURSIVE ClosureFor_NoPush(_, _, _, _, _)
ClosureFor_NoPush(delta_, current, i, closure, stack) ==
  IF i > Len(delta_) THEN <<closure, stack>>
  ELSE IF delta_[i][1] = current /\ delta_[i][2] = Amp
          /\ delta_[i][3] \notin closure
       THEN ClosureFor_NoPush(delta_, current, i + 1,
                              closure \cup {delta_[i][3]}, stack)
       ELSE ClosureFor_NoPush(delta_, current, i + 1, closure, stack)

\* Closure: the body of the for loop of a closure traversal, from rule i on:
\* every '&' rule leaving current whose destination is new is added to the
\* closure and pushed.  Gives <<closure, stack>>.
RECURSIVE ClosureFor(_, _, _, _, _)
ClosureFor(delta_, current, i, closure, stack) ==
  IF i > Len(delta_) THEN <<closure, stack>>
  ELSE LET origin == delta_[i][1]
           sym    == delta_[i][2]
           dest   == delta_[i][3]
       IN IF origin = current /\ sym = Amp /\ dest \notin closure
          THEN ClosureFor(delta_, current, i + 1,
                          closure \cup {dest}, Append(stack, dest))
          ELSE ClosureFor(delta_, current, i + 1, closure, stack)

\* while stack: current = stack.pop(); for ... in delta: ...
\* (the for loop's <<closure, stack>> is taken as a value, `after`, before
\* the next iteration starts from it)
RECURSIVE ClosureWhile(_, _, _)
ClosureWhile(delta_, closure, stack) ==
  IF stack = <<>> THEN closure
  ELSE LET current == stack[Len(stack)]
           popped  == SubSeq(stack, 1, Len(stack) - 1)
       IN CHOOSE done \in
            { ClosureWhile(delta_, after[1], after[2]) :
                after \in { ClosureFor(delta_, current, 1, closure,
                                       popped) } } : TRUE

\* handle_closure(state, delta): the closure of one state
handle_closure(state, delta_) == ClosureWhile(delta_, {state}, <<state>>)

\* epsilon_closure started from an empty set instead of set(states)
epsilon_closure_NoSeed(states_) == ClosureWhile(delta, {}, ListOf(states_))

\* epsilon_closure(states) of convert_to_dfa, over the automaton's delta
epsilon_closure(states_) == ClosureWhile(delta, states_, ListOf(states_))

\* find_transitions(states, symbol) of convert_to_dfa
find_transitions(states_, symbol) ==
  { delta[i][3] : i \in { j \in DOMAIN delta :
                            delta[j][1] \in states_ /\ delta[j][2] = symbol } }

----------------------------------------------------------------------------
\* ConvertBegin with the start state-set left as {initial_state}
ConvertBegin_NoClosure ==
  /\ pc = "loaded"
  /\ new_initial_state' = {initial_state}
  /\ queue' = <<{initial_state}>>
  /\ visited' = <<>>
  /\ new_delta' = <<>>
  /\ pc' = "convert"
  /\ UNCHANGED <<loadVars, traversalVars, automatonVars, result, processVars, closureVars>>

\* convert_to_dfa, lines 181-187: the start state-set, the worklist seeded
\* with it, visited empty
ConvertEntry ==
  /\ new_initial_state' = epsilon_closure({initial_state})
  /\ queue' = <<epsilon_closure({initial_state})>>
  /\ visited' = <<>>
  /\ new_delta' = <<>>
  /\ pc' = "convert"
  /\ UNCHANGED <<loadVars, traversalVars, automatonVars, result,
                 processVars, closureVars>>

\* convert_to_dfa called on the loaded automaton
ConvertBegin ==
  /\ pc = "loaded"
  /\ ConvertEntry

\* convert_to_dfa called once more on the same automaton; result still
\* holds what the call before returned
ConvertAgain ==
  /\ pc = "converted"
  /\ ConvertEntry

\* ForSymbols without the test `if next_states`: an empty destination set
\* gets a rule and is queued like any other
RECURSIVE ForSymbols_NoEmptyCheck(_, _, _, _, _)
ForSymbols_NoEmptyCheck(current_states, i, queue_, visited_, new_delta_) ==
  IF i > Len(alphabet) THEN <<queue_, visited_, new_delta_>>
  ELSE LET symbol      == alphabet[i]
           next_states == epsilon_closure(
                            find_transitions(current_states, symbol))
           rule        == <<state_to_str(current_states), symbol,
                            state_to_str(next_states)>>
       IN IF next_states \notin Range(visited_)
          THEN ForSymbols_NoEmptyCheck(current_states, i + 1,
                                       Append(queue_, next_states),
                                       Append(visited_, next_states),
                                       Append(new_delta_, rule))
          ELSE ForSymbols_NoEmptyCheck(current_states, i + 1, queue_,
                                       visited_, Append(new_delta_, rule))

\* ForSymbols with a `break` after the first symbol that has a destination:
\* which rules are emitted then depends on the order of the alphabet
RECURSIVE ForSymbols_Break(_, _, _, _, _)
ForSymbols_Break(current_states, i, queue_, visited_, new_delta_) ==
  IF i > Len(alphabet) THEN <<queue_, visited_, new_delta_>>
  ELSE LET symbol      == alphabet[i]
           next_states == epsilon_closure(
                            find_transitions(current_states, symbol))
           rule        == <<state_to_str(current_states), symbol,
                            state_to_str(next_states)>>
       IN IF next_states # {}
          THEN IF next_states \notin Range(visited_)
               THEN <<Append(queue_, next_states),
                      Append(visited_, next_states),
                      Append(new_delta_, rule)>>
               ELSE <<queue_, visited_, Append(new_delta_, rule)>>
          ELSE ForSymbols_Break(current_states, i + 1, queue_, visited_,
                                new_delta_)

\* the for loop over the alphabet of one worklist iteration, from symbol i on;
\* gives <<queue, visited, new_delta>>
RECURSIVE ForSymbols(_, _, _, _, _)
ForSymbols(current_states, i, queue_, visited_, new_delta_) ==
  IF i > Len(alphabet) THEN <<queue_, visited_, new_delta_>>
  ELSE LET symbol == alphabet[i]
           Body(next_states) ==
             LET rule == <<state_to_str(current_states), symbol,
                           state_to_str(next_states)>>
             IN IF next_states # {}
                THEN IF next_states \notin Range(visited_)
                     THEN ForSymbols(current_states, i + 1,
                                     Append(queue_, next_states),
                                     Append(visited_, next_states),
                                     Append(new_delta_, rule))
                     ELSE ForSymbols(current_states, i + 1, queue_,
                                     visited_, Append(new_delta_, rule))
                ELSE ForSymbols(current_states, i + 1, queue_, visited_,
                                new_delta_)
       IN CHOOSE after \in
            { Body(next_states) :
                next_states \in { epsilon_closure(
                                    find_transitions(current_states,
                                                     symbol)) } } : TRUE

\* ConvertLoopAt without visited.append(current_states)
ConvertLoopAt_NoAppend(k) ==
  /\ pc = "convert"
  /\ queue # <<>>
  /\ \E after \in { ForSymbols(queue[k], 1,
                                SubSeq(queue, 1, k - 1)
                                  \o SubSeq(queue, k + 1, Len(queue)),
                                visited,
                                new_delta) } :
       /\ queue' = after[1]
       /\ visited' = after[2]
       /\ new_delta' = after[3]
  /\ UNCHANGED <<loadVars, traversalVars, automatonVars, pc,
                 new_initial_state, result, processVars, closureVars>>

\* one iteration of `while queue` that removes the state-set at position k
\* of the worklist: append it to visited, then the for loop over the alphabet
ConvertLoopAt(k) ==
  /\ pc = "convert"
  /\ queue # <<>>
  /\ \E after \in { ForSymbols(queue[k], 1,
                                SubSeq(queue, 1, k - 1)
                                  \o SubSeq(queue, k + 1, Len(queue)),
                                Append(visited, queue[k]),
                                new_delta) } :
       /\ queue' = after[1]
       /\ visited' = after[2]
       /\ new_delta' = after[3]
  /\ UNCHANGED <<loadVars, traversalVars, automatonVars, pc,
                 new_initial_state, result, processVars, closureVars>>

\* one iteration of `while queue`: queue.pop() removes the last state-set
ConvertLoop == ConvertLoopAt(Len(queue))

\* AnyFinal with all() in place of any()
AnyFinal_All(state_set) == \A state \in state_set : state \in Range(final_states)

\* any(state in final_states for state in state_set)
AnyFinal(state_set) == \E state \in state_set : state \in Range(final_states)

\* new_final_states after the loop of lines 203-205
NewFinalStates(visited_) ==
  LET picked == SelectSeq(visited_, AnyFinal)
  IN [i \in 1..Len(picked) |-> state_to_str(picked[i])]

\* new_states = [state_to_str(state_set) for state_set in visited]
NewStates(visited_) == [i \in 1..Len(visited_) |-> state_to_str(visited_[i])]

\* the worklist is empty: lines 203-210, the returned tuple
ConvertReturn ==
  /\ pc = "convert"
  /\ queue = <<>>
  /\ result' = <<NewStates(visited), alphabet, new_delta,
                 state_to_str(new_initial_state), NewFinalStates(visited)>>
  /\ pc' = "converted"
  /\ UNCHANGED <<loadVars, traversalVars, automatonVars, new_initial_state, queue, visited, new_delta,
                 processVars, closureVars>>

----------------------------------------------------------------------------
\* is_valid_word with any() in place of all()
is_valid_word_Any(alphabet_, word) ==
  \E i \in 1..Len(word) : word[i] \in Range(alphabet_)

\* is_valid_word: all(char in alphabet for char in word)
is_valid_word(alphabet_, word) ==
  \A i \in 1..Len(word) : word[i] \in Range(alphabet_)

\* transition that returns the destination of the last matching rule
transition_Last(delta_, state, symbol) ==
  LET hits == { i \in DOMAIN delta_ :
                  delta_[i][1] = state /\ delta_[i][2] = symbol }
  IN IF hits = {} THEN None
     ELSE delta_[CHOOSE i \in hits : \A j \in hits : i >= j][3]

\* transition(state, symbol): the destination of the first matching rule
transition(delta_, state, symbol) ==
  LET hits == { i \in DOMAIN delta_ :
                  delta_[i][1] = state /\ delta_[i][2] = symbol }
  IN IF hits = {} THEN None
     ELSE delta_[CHOOSE i \in hits : \A j \in hits : i <= j][3]

\* Walk with `continue` in place of `break`: a symbol with no rule is skipped
RECURSIVE Walk_Continue(_, _, _, _)
Walk_Continue(delta_, word, i, current) ==
  IF i > Len(word) THEN <<current, i - 1>>
  ELSE IF transition(delta_, current, word[i]) # None
       THEN Walk_Continue(delta_, word, i + 1,
                          transition(delta_, current, word[i]))
       ELSE Walk_Continue(delta_, word, i + 1, current)

\* the for loop of lines 101-106 from symbol i on: follow the first matching
\* rule, break when there is none (`if next_state` is false for None and
\* for ""); gives <<current_state, symbols consumed>>
RECURSIVE Walk(_, _, _, _)
Walk(delta_, word, i, current) ==
  IF i > Len(word) THEN <<current, i - 1>>
  ELSE LET next_state == transition(delta_, current, word[i])
       IN IF next_state # None
          THEN Walk(delta_, word, i + 1, next_state)
          ELSE <<current, i - 1>>

\* the verdict of one word, lines 96-111
Verdict(automaton, word) ==
  IF ~ is_valid_word(automaton[2], word) THEN "INVALIDA"
  ELSE IF Walk(automaton[3], word, 1, automaton[4])[1]
            \in Range(automaton[5])
       THEN "ACEITA"
       ELSE "REJEITA"

\* the loop over the words without `current_state = initial_state`: a word
\* is walked from the state the word before it ended in
RECURSIVE ForWords_NoRestart(_, _, _, _, _)
ForWords_NoRestart(automaton, words_, i, results_, current) ==
  IF i > Len(words_) THEN results_
  ELSE LET word == words_[i]
           end  == Walk(automaton[3], word, 1, current)[1]
           Put(verdict) == [w \in (DOMAIN results_) \cup {word} |->
                              IF w = word THEN verdict ELSE results_[w]]
       IN IF ~ is_valid_word(automaton[2], word)
          THEN ForWords_NoRestart(automaton, words_, i + 1,
                                  Put("INVALIDA"), current)
          ELSE ForWords_NoRestart(automaton, words_, i + 1,
                                  Put(IF end \in Range(automaton[5])
                                      THEN "ACEITA" ELSE "REJEITA"),
                                  end)

process_NoRestart(automaton, words_) ==
  ForWords_NoRestart(automaton, words_, 1, [w \in {} |-> "REJEITA"],
                     automaton[4])

\* process(automaton, words): the dict after the loop over the words; a later
\* occurrence of a word overwrites the earlier entry
RECURSIVE process(_, _)
process(automaton, words_) ==
  IF words_ = <<>> THEN [w \in {} |-> "REJEITA"]
  ELSE LET before == process(automaton, SubSeq(words_, 1, Len(words_) - 1))
           word   == words_[Len(words_)]
       IN [w \in (DOMAIN before) \cup {word} |->
             IF w = word THEN Verdict(automaton, word) ELSE before[w]]

\* Words of at most MaxWord characters
Words == UNION { [1..n -> WordChars] : n \in 0..MaxWord }

\* ProcessCall with the results dictionary of the call before kept
ProcessCall_KeepResults(automaton, word) ==
  /\ words' = <<word>>
  /\ results' = [w \in DOMAIN results \cup {word} |->
                   IF w = word THEN process(automaton, <<word>>)[word]
                   ELSE results[w]]
  /\ IF is_valid_word(automaton[2], word)
     THEN /\ current_state' = Walk(automaton[3], word, 1, automaton[4])[1]
          /\ consumed' = Walk(automaton[3], word, 1, automaton[4])[2]
     ELSE /\ current_state' = None
          /\ consumed' = 0
  /\ pc' = "processed"

\* one call process(automaton, [word])
ProcessCall(automaton, word) ==
  /\ words' = <<word>>
  /\ results' = process(automaton, <<word>>)
  /\ IF is_valid_word(automaton[2], word)
     THEN /\ current_state' = Walk(automaton[3], word, 1, automaton[4])[1]
          /\ consumed' = Walk(automaton[3], word, 1, automaton[4])[2]
     ELSE /\ current_state' = None
          /\ consumed' = 0
  /\ pc' = "processed"

\* process on the loaded automaton
ProcessInput ==
  /\ pc = "loaded"
  /\ subject' = "input"
  /\ \E word \in Words :
       ProcessCall(<<states, alphabet, delta, initial_state, final_states>>,
                   word)
  /\ UNCHANGED <<loadVars, traversalVars, automatonVars, convertVars, closureVars>>

\* the words of a second call: the empty word and the one-character words
AgainWords == { w \in Words : Len(w) <= 1 }

\* process called once more on the loaded automaton, with the same word or
\* with a short one
ProcessAgain ==
  /\ pc = "processed"
  /\ subject = "input"
  /\ \E word \in AgainWords \cup {words[1]} :
       ProcessCall(<<states, alphabet, delta, initial_state, final_states>>,
                   word)
  /\ UNCHANGED <<loadVars, traversalVars, automatonVars, convertVars,
                 closureVars, subject>>

\* the words process is given in a list: "", "a", "aa", "ab", "c"
WordPool == { <<>>, <<97>>, <<97, 97>>, <<97, 98>>, <<99>> }

WordLists == UNION { [1..n -> WordPool] : n \in 0..MaxWords }

\* current_state and the symbols consumed when the loop over the words is
\* left: those of the last valid word among the first i
RECURSIVE LastWalk(_, _, _)
LastWalk(automaton, words_, i) ==
  IF i = 0 THEN <<None, 0>>
  ELSE IF is_valid_word(automaton[2], words_[i])
       THEN Walk(automaton[3], words_[i], 1, automaton[4])
       ELSE LastWalk(automaton, words_, i - 1)

\* process on the loaded automaton with a list of words
ProcessList ==
  /\ pc = "loaded"
  /\ subject' = "list"
  /\ \E ws \in WordLists :
       LET automaton == <<states, alphabet, delta, initial_state,
                          final_states>>
       IN /\ words' = ws
          /\ results' = process(automaton, ws)
          /\ current_state' = LastWalk(automaton, ws, Len(ws))[1]
          /\ consumed' = LastWalk(automaton, ws, Len(ws))[2]
  /\ pc' = "processed"
  /\ UNCHANGED <<loadVars, traversalVars, automatonVars, convertVars,
                 closureVars>>

\* process on the automaton convert_to_dfa returned
ProcessDfa ==
  /\ pc = "converted"
  /\ subject' = "dfa"
  /\ \E word \in Words : ProcessCall(result, word)
  /\ UNCHANGED <<loadVars, traversalVars, automatonVars, convertVars, closureVars>>

----------------------------------------------------------------------------
\* Rules a loaded automaton can hold: both ends are states, the symbol is
\* '&' or of the alphabet (load_automata, lines 61-66)
Rules == StateNames \X (Range(Symbols) \cup {Amp}) \X StateNames

RuleLists == UNION { [1..n -> Rules] : n \in 0..MaxDelta }

\* The initial state of the inputs: "r", the last name in sorted order, so
\* that the name of a start set with several members depends on the sort
InitialName == <<114>>

\* The automaton as load_automata returns it; nothing has been called yet
Init ==
  /\ states = sorted(StateNames)
  /\ alphabet = Symbols
  /\ delta \in RuleLists
  /\ initial_state = InitialName
  /\ final_states \in { sorted(F) : F \in SUBSET StateNames }
  /\ pc = "loaded"
  /\ new_initial_state = {}
  /\ queue = <<>>
  /\ visited = <<>>
  /\ new_delta = <<>>
  /\ result = <<>>
  /\ subject = "none"
  /\ words = <<>>
  /\ results = [w \in {} |-> "REJEITA"]
  /\ current_state = None
  /\ consumed = 0
  /\ closure_arg = {}
  /\ closure_out = {}
  /\ closure_again = {}
  /\ closure_single = [s \in {} |-> {}]
  /\ trav_closure = {}
  /\ trav_stack = <<>>
  /\ file_lines = <<>>
  /\ load_error = ""

\* States and rules of the automata process is run on directly
ProcessStateNames == { <<113>>, <<114>> }

ProcessRules ==
  ProcessStateNames \X (Range(Symbols) \cup {Amp}) \X ProcessStateNames

\* A loaded automaton over two states, for the calls of process alone
InitProcess ==
  /\ states = sorted(ProcessStateNames)
  /\ alphabet = Symbols
  /\ delta \in UNION { [1..n -> ProcessRules] : n \in 0..MaxDelta }
  /\ initial_state \in ProcessStateNames
  /\ final_states \in { sorted(F) : F \in SUBSET ProcessStateNames }
  /\ pc = "loaded"
  /\ new_initial_state = {}
  /\ queue = <<>>
  /\ visited = <<>>
  /\ new_delta = <<>>
  /\ result = <<>>
  /\ subject = "none"
  /\ words = <<>>
  /\ results = [w \in {} |-> "REJEITA"]
  /\ current_state = None
  /\ consumed = 0
  /\ closure_arg = {}
  /\ closure_out = {}
  /\ closure_again = {}
  /\ closure_single = [s \in {} |-> {}]
  /\ trav_closure = {}
  /\ trav_stack = <<>>
  /\ file_lines = <<>>
  /\ load_error = ""

\* A transition relation and nothing else: the closures take no other input
InitClosure ==
  /\ states = sorted(StateNames)
  /\ alphabet = Symbols
  /\ delta \in RuleLists
  /\ initial_state = states[1]
  /\ final_states = <<>>
  /\ pc = "loaded"
  /\ new_initial_state = {}
  /\ queue = <<>>
  /\ visited = <<>>
  /\ new_delta = <<>>
  /\ result = <<>>
  /\ subject = "none"
  /\ words = <<>>
  /\ results = [w \in {} |-> "REJEITA"]
  /\ current_state = None
  /\ consumed = 0
  /\ closure_arg = {}
  /\ closure_out = {}
  /\ closure_again = {}
  /\ closure_single = [s \in {} |-> {}]
  /\ trav_closure = {}
  /\ trav_stack = <<>>
  /\ file_lines = <<>>
  /\ load_error = ""

\* epsilon_closure of a state-set, epsilon_closure of what it returned, and
\* handle_closure of each member
ClosureCall ==
  /\ pc = "loaded"
  /\ \E S \in SUBSET Range(states) :
       /\ closure_arg' = S
       /\ closure_out' = epsilon_closure(S)
       /\ closure_again' = epsilon_closure(epsilon_closure(S))
       /\ closure_single' = [s \in S |-> handle_closure(s, delta)]
  /\ pc' = "closed"
  /\ UNCHANGED <<loadVars, traversalVars, automatonVars, convertVars, processVars>>

Next ==
  \/ ConvertBegin
  \/ ConvertLoop
  \/ ConvertReturn
  \/ ProcessInput
  \/ ProcessDfa

\* load, then convert_to_dfa, process on its result, or process on the input
Spec == Init /\ [][Next]_vars

NextConvert ==
  \/ ConvertBegin
  \/ ConvertLoop
  \/ ConvertReturn

\* convert_to_dfa alone
SpecConvert == Init /\ [][NextConvert]_vars

\* process alone, on the loaded automaton
SpecProcess == InitProcess /\ [][ProcessInput]_vars

\* the closure functions alone
SpecClosure == InitClosure /\ [][ClosureCall]_vars

----------------------------------------------------------------------------
(* convert_to_dfa with the orders left open: the alphabet in either order,  *)
(* the rules in every order, the worklist emptied in any order.             *)

\* no call has run: every local is empty
NoLocals ==
  /\ new_initial_state = {}
  /\ queue = <<>>
  /\ visited = <<>>
  /\ new_delta = <<>>
  /\ result = <<>>
  /\ subject = "none"
  /\ words = <<>>
  /\ results = [w \in {} |-> "REJEITA"]
  /\ current_state = None
  /\ consumed = 0
  /\ closure_arg = {}
  /\ closure_out = {}
  /\ closure_again = {}
  /\ closure_single = [s \in {} |-> {}]
  /\ trav_closure = {}
  /\ trav_stack = <<>>
  /\ file_lines = <<>>
  /\ load_error = ""

\* the alphabet line in both orders: "a b" and "b a"
SymbolOrders == { Symbols, <<Symbols[2], Symbols[1]>> }

\* the accepting lines "q" and "q,r r"
OrderFinals == { << <<113>> >>, << <<113, 44, 114>>, <<114>> >> }

InitOrder ==
  /\ states = sorted(StateNames)
  /\ alphabet \in SymbolOrders
  /\ delta \in RuleLists
  /\ initial_state = InitialName
  /\ final_states \in OrderFinals
  /\ pc = "loaded"
  /\ NoLocals

NextOrder ==
  \/ ConvertBegin
  \/ \E k \in 1..Len(queue) : ConvertLoopAt(k)
  \/ ConvertReturn

\* convert_to_dfa, the worklist emptied in any order
SpecOrder == InitOrder /\ [][NextOrder]_vars

----------------------------------------------------------------------------
(* Calls in a row on one automaton.                                         *)

\* the rules on the first symbol and on '&'
AgainRules == ProcessStateNames \X {Symbols[1], Amp} \X ProcessStateNames

\* A loaded automaton over two states, the second symbol without a rule
InitAgain ==
  /\ states = sorted(ProcessStateNames)
  /\ alphabet = Symbols
  /\ delta \in UNION { [1..n -> AgainRules] : n \in 0..MaxDelta }
  /\ initial_state \in ProcessStateNames
  /\ final_states \in { sorted(F) : F \in SUBSET ProcessStateNames }
  /\ pc = "loaded"
  /\ NoLocals

NextAgain ==
  \/ ConvertBegin
  \/ ConvertLoop
  \/ ConvertReturn
  \/ ConvertAgain
  \/ ProcessInput
  \/ ProcessAgain

\* convert_to_dfa any number of times, or process any number of times
SpecAgain == InitAgain /\ [][NextAgain]_vars

----------------------------------------------------------------------------
(* Termination: the closure traversal of epsilon_closure taken one          *)
(* iteration of `while stack` at a time, and the worklist loop.             *)

\* epsilon_closure(S) entered: closure = set(states), stack = list(states)
TraverseEnter ==
  /\ pc = "loaded"
  /\ \E S \in SUBSET Range(states) :
       /\ closure_arg' = S
       /\ trav_closure' = S
       /\ trav_stack' = ListOf(S)
  /\ pc' = "closure"
  /\ UNCHANGED <<loadVars, automatonVars, convertVars, processVars,
                 closure_out, closure_again, closure_single>>

\* TraversePop that reads the top of the stack and leaves it there
TraversePop_NoPop ==
  /\ pc = "closure"
  /\ trav_stack # <<>>
  /\ LET current == trav_stack[Len(trav_stack)]
         after   == ClosureFor(delta, current, 1, trav_closure, trav_stack)
     IN /\ trav_closure' = after[1]
        /\ trav_stack' = after[2]
  /\ UNCHANGED <<loadVars, automatonVars, convertVars, processVars,
                 closureVars, pc>>

\* one iteration of `while stack`: current_state = stack.pop(), then the for
\* loop over delta
TraversePop ==
  /\ pc = "closure"
  /\ trav_stack # <<>>
  /\ LET current == trav_stack[Len(trav_stack)]
         popped  == SubSeq(trav_stack, 1, Len(trav_stack) - 1)
         after   == ClosureFor(delta, current, 1, trav_closure, popped)
     IN /\ trav_closure' = after[1]
        /\ trav_stack' = after[2]
  /\ UNCHANGED <<loadVars, automatonVars, convertVars, processVars,
                 closureVars, pc>>

\* the stack is empty: return epsilon_closure_set
TraverseExit ==
  /\ pc = "closure"
  /\ trav_stack = <<>>
  /\ closure_out' = trav_closure
  /\ pc' = "traversed"
  /\ UNCHANGED <<loadVars, traversalVars, automatonVars, convertVars,
                 processVars, closure_arg, closure_again, closure_single>>

\* A loaded automaton over two states, without accepting states
InitTerm ==
  /\ states = sorted(ProcessStateNames)
  /\ alphabet = Symbols
  /\ delta \in UNION { [1..n -> ProcessRules] : n \in 0..MaxDelta }
  /\ initial_state \in ProcessStateNames
  /\ final_states = <<>>
  /\ pc = "loaded"
  /\ NoLocals

NextTerm ==
  \/ ConvertBegin
  \/ ConvertLoop
  \/ ConvertReturn
  \/ TraverseEnter
  \/ TraversePop
  \/ TraverseExit

\* convert_to_dfa, or one closure traversal, run to the end: the code is
\* sequential, so a step that can be taken is taken
SpecTerm == InitTerm /\ [][NextTerm]_vars /\ WF_vars(NextTerm)

----------------------------------------------------------------------------
(* convert_to_dfa on rule lists one rule longer, over one symbol and '&'.   *)

\* the rules on the first symbol and on '&' between the three state names
NameRules == StateNames \X {Symbols[1], Amp} \X StateNames

InitNames ==
  /\ states = sorted(StateNames)
  /\ alphabet = Symbols
  /\ delta \in UNION { [1..n -> NameRules] : n \in 0..(MaxDelta + 1) }
  /\ initial_state = InitialName
  /\ final_states = <<>>
  /\ pc = "loaded"
  /\ NoLocals

\* convert_to_dfa alone, on the longer rule lists
SpecNames == InitNames /\ [][NextConvert]_vars

\* process alone, on a list of words
SpecWords == InitAgain /\ [][ProcessList]_vars

----------------------------------------------------------------------------
(* load_automata: the file is a list of lines, each a string.               *)

\* str.strip() and str.split() without an argument cut at white space
Whitespace == {Space, Newline}

RECURSIVE lstrip(_)
lstrip(s) ==
  IF s # <<>> /\ Head(s) \in Whitespace THEN lstrip(Tail(s)) ELSE s

RECURSIVE rstrip(_)
rstrip(s) ==
  IF s # <<>> /\ s[Len(s)] \in Whitespace
    THEN rstrip(SubSeq(s, 1, Len(s) - 1))
    ELSE s

strip(s) == rstrip(lstrip(s))

\* str.split(): the maximal runs of characters that are not white space
RECURSIVE SplitFrom(_, _, _, _)
SplitFrom(s, i, parts, token) ==
  LET closed == IF token = <<>> THEN parts ELSE Append(parts, token) IN
  IF i > Len(s) THEN closed
  ELSE IF s[i] \in Whitespace THEN SplitFrom(s, i + 1, closed, <<>>)
  ELSE SplitFrom(s, i + 1, parts, Append(token, s[i]))

split(s) == SplitFrom(s, 1, <<>>, <<>>)

\* for state in final_states: the message raised, "" when none is
FinalStatesError(states_, final_states_) ==
  IF \E i \in 1..Len(final_states_) : final_states_[i] \notin Range(states_)
    THEN "final"
    ELSE ""

\* the three tests on one transition line, in the code's order
TransitionError(alphabet_, states_, transition_) ==
  LET parts == split(transition_) IN
  IF Len(parts) # 3 THEN "transicao"
  ELSE IF parts[1] \notin Range(states_) \/ parts[3] \notin Range(states_)
    THEN "estado"
  ELSE IF parts[2] # <<Amp>> /\ parts[2] \notin Range(alphabet_)
    THEN "simbolo"
  ELSE ""

\* for transition in transitions: <<message raised, delta built>>
RECURSIVE ForTransitions(_, _, _, _, _)
ForTransitions(alphabet_, states_, transitions, i, delta_) ==
  IF i > Len(transitions) THEN <<"", delta_>>
  ELSE LET error == TransitionError(alphabet_, states_, transitions[i]) IN
       IF error # "" THEN <<error, delta_>>
       ELSE ForTransitions(alphabet_, states_, transitions, i + 1,
                           Append(delta_, split(transitions[i])))

\* load_automata(filename): <<message raised, automaton returned>>
load_automata(file) ==
  LET lines == [i \in 1..Len(file) |-> strip(file[i])] IN
  IF Len(lines) < MinLines THEN <<"linhas", <<>>>>
  ELSE
    LET alphabet_ == split(lines[1])
        states_ == split(lines[2])
        final_states_ == split(lines[3])
        initial_state_ == lines[4]
        transitions == SubSeq(lines, 5, Len(lines))
        finals == FinalStatesError(states_, final_states_)
        rules == ForTransitions(alphabet_, states_, transitions, 1, <<>>)
    IN
    IF finals # "" THEN <<finals, <<>>>>
    ELSE IF rules[1] # "" THEN <<rules[1], <<>>>>
    ELSE IF initial_state_ \notin Range(states_) THEN <<"inicial", <<>>>>
    ELSE <<"", <<states_, alphabet_, rules[2], initial_state_,
                 final_states_>>>>

\* the lines a file is made of: "a", "q r", "q", " r " and the transition
\* lines "q a r", "r & q", "q c r", "q a"
FileLines ==
  { <<97>>, <<113, 32, 114>>, <<113>>, <<32, 114, 32>>,
    <<113, 32, 97, 32, 114>>, <<114, 32, 38, 32, 113>>,
    <<113, 32, 99, 32, 114>>, <<113, 32, 97>> }

Files == UNION { [1..n -> FileLines] : n \in 0..MaxLines }

\* a file on disk, nothing loaded yet
InitLoad ==
  /\ file_lines \in Files
  /\ load_error = ""
  /\ states = <<>>
  /\ alphabet = <<>>
  /\ delta = <<>>
  /\ initial_state = None
  /\ final_states = <<>>
  /\ pc = "file"
  /\ new_initial_state = {}
  /\ queue = <<>>
  /\ visited = <<>>
  /\ new_delta = <<>>
  /\ result = <<>>
  /\ subject = "none"
  /\ words = <<>>
  /\ results = [w \in {} |-> "REJEITA"]
  /\ current_state = None
  /\ consumed = 0
  /\ closure_arg = {}
  /\ closure_out = {}
  /\ closure_again = {}
  /\ closure_single = [s \in {} |-> {}]
  /\ trav_closure = {}
  /\ trav_stack = <<>>

\* states, alphabet, delta, initial_state, final_states = load_automata(f)
Load ==
  /\ pc = "file"
  /\ LET outcome == load_automata(file_lines) IN
     IF outcome[1] # ""
       THEN /\ load_error' = outcome[1]
            /\ pc' = "raised"
            /\ UNCHANGED automatonVars
       ELSE /\ states' = outcome[2][1]
            /\ alphabet' = outcome[2][2]
            /\ delta' = outcome[2][3]
            /\ initial_state' = outcome[2][4]
            /\ final_states' = outcome[2][5]
            /\ pc' = "loaded"
            /\ UNCHANGED load_error
  /\ UNCHANGED <<file_lines, traversalVars, convertVars, processVars,
                 closureVars>>

\* load_automata alone
SpecLoad == InitLoad /\ [][Load]_vars

----------------------------------------------------------------------------
(* What the claims compare the code with: the automaton's meaning, stated   *)
(* over the rules as a set and never through the code's loops.              *)

RuleSet == Range(delta)
StateSet == Range(states)
FinalSet == Range(final_states)

\* Sequences of n states
Paths(n) == [1..n -> StateSet]

\* X is closed under the '&' rules
EpsClosed(X) == \A r \in RuleSet : (r[1] \in X /\ r[2] = Amp) => r[3] \in X

\* The states reachable from a member of S by zero or more '&' rules: the
\* least set of states that contains S and is closed under the '&' rules
EpsReach(S) ==
  { t \in StateSet :
      \A X \in SUBSET StateSet : (S \subseteq X /\ EpsClosed(X)) => t \in X }

\* The destinations of the rules on symbol a leaving a member of S
Move(S, a) == { r[3] : r \in { x \in RuleSet : x[1] \in S /\ x[2] = a } }

\* One step of the powerset automaton
Step(S, a) == EpsReach(Move(S, a))

\* The state-set of the powerset automaton after the first n symbols of w
RECURSIVE After(_, _)
After(w, n) ==
  IF n = 0 THEN EpsReach({initial_state})
  ELSE Step(After(w, n - 1), w[n])

\* The NFA has an accepting run on w: epsilon moves before, between and
\* after the symbols, the whole word consumed
NfaAccepts(w) == After(w, Len(w)) \cap FinalSet # {}

\* The non-empty state-sets reachable from the start set
RECURSIVE Grow(_)
Grow(R) ==
  LET more == R \cup ({ Step(S, a) : S \in R, a \in Range(alphabet) } \ {{}})
  IN IF more = R THEN R ELSE Grow(more)

ReachableSets == Grow({EpsReach({initial_state})})

\* No element occurs twice in the list
NoDuplicates(l) == \A i, j \in DOMAIN l : l[i] = l[j] => i = j

\* The members of S in strictly ascending order
Ascending(S) ==
  CHOOSE l \in [1..Cardinality(S) -> S] :
    \A i, j \in DOMAIN l : i < j => StrLess(l[i], l[j])

----------------------------------------------------------------------------
\* The word of the call process(automaton, [word])
TheWord == words[1]

ProcessedInput == pc = "processed" /\ subject = "input"
ProcessedDfa == pc = "processed" /\ subject = "dfa"

\* C1: for every word w over the alphabet, process on the automaton
\* convert_to_dfa returned gives ACEITA if and only if the input automaton
\* has an accepting run on w (powerset semantics, whole word consumed).
C1_SubsetConstructionEquivalence ==
  ProcessedDfa =>
    \A i \in DOMAIN words :
       is_valid_word(alphabet, words[i]) =>
         (results[words[i]] = "ACEITA" <=> NfaAccepts(words[i]))

\* The automaton has no '&' rule and at most one rule per (state, symbol)
IsDfa ==
  /\ \A i \in DOMAIN delta : delta[i][2] # Amp
  /\ \A i, j \in DOMAIN delta :
       (delta[i][1] = delta[j][1] /\ delta[i][2] = delta[j][2]) => i = j

\* w belongs to the language: the whole word is consumed along rules from
\* the initial state and the state then reached is accepting
InLanguage(w) ==
  \E p \in Paths(Len(w) + 1) :
     /\ p[1] = initial_state
     /\ \A i \in 1..Len(w) : <<p[i], w[i], p[i + 1]>> \in RuleSet
     /\ p[Len(w) + 1] \in FinalSet

\* C2: on a DFA, partial or not, process gives a word over the alphabet
\* ACEITA exactly when the word belongs to the language, REJEITA otherwise.
C2_ProcessCorrectOnDfa ==
  (ProcessedInput /\ IsDfa) =>
    \A i \in DOMAIN words :
       is_valid_word(alphabet, words[i]) =>
         results[words[i]] =
           IF InLanguage(words[i]) THEN "ACEITA" ELSE "REJEITA"

\* C3: the state list convert_to_dfa returns holds each state-set name
\* exactly once, and the accepting list holds each name at most once.
C3_UniqueStateNames ==
  pc = "converted" =>
    /\ Range(result[1]) = { state_to_str(V) : V \in Range(visited) }
    /\ NoDuplicates(result[1])
    /\ NoDuplicates(result[5])


\* C4: epsilon_closure(S), and handle_closure for one state, is exactly the
\* set of states reachable from a member of S by zero or more '&' rules: it
\* contains S and no state that is not '&'-reachable, cycles included.
C4_ClosureExact ==
  pc = "closed" =>
    /\ closure_out = EpsReach(closure_arg)
    /\ closure_arg \subseteq closure_out
    /\ \A s \in closure_arg : closure_single[s] = EpsReach({s})

\* a closure that grew over a cycle of '&' rules and stopped short of a state
C4_Witness ==
  /\ pc = "closed"
  /\ \E s, t \in StateSet :
       /\ s # t
       /\ <<s, Amp, t>> \in RuleSet
       /\ <<t, Amp, s>> \in RuleSet
       /\ closure_arg = {s}
       /\ closure_out = {s, t}
       /\ closure_single[s] = {s, t}

\* C5: epsilon_closure(epsilon_closure(S)) = epsilon_closure(S).
C5_ClosureIdempotent ==
  pc = "closed" => closure_again = closure_out

\* a closure two '&' rules deep, taken again
C5_Witness ==
  /\ pc = "closed"
  /\ Cardinality(closure_arg) = 1
  /\ Cardinality(closure_out) = 3
  /\ closure_again = closure_out

\* C6: the rules convert_to_dfa returns are exactly the triples
\* (name(S), a, name(T)) with S a state-set reachable from the start set, a a
\* symbol of the alphabet and T = epsilon_closure(find_transitions(S, a))
\* non-empty; an empty T gives no rule, and there is no sink state.
C6_TransitionsExact ==
  pc = "converted" =>
    /\ Range(result[3]) =
         { <<state_to_str(c[1]), c[2], state_to_str(Step(c[1], c[2]))>> :
             c \in { d \in ReachableSets \X Range(alphabet) :
                       Step(d[1], d[2]) # {} } }
    /\ state_to_str({}) \notin Range(result[1])
    /\ \A r \in Range(result[3]) :
         r[1] # state_to_str({}) /\ r[3] # state_to_str({})

\* a conversion that emitted a rule and met a (state-set, symbol) pair with
\* no destination
C6_Witness ==
  /\ pc = "converted"
  /\ Len(result[3]) >= 2
  /\ \E S \in ReachableSets : \E a, b \in Range(alphabet) :
       Step(S, a) = {} /\ Step(S, b) \notin {{}, S}

C8_InitialName ==
  pc = "converted" =>
    /\ result[4] = join(Ascending(EpsReach({initial_state})))
    /\ result[4] \in Range(result[1])

\* a start set of several states whose first name is not the initial state's
C8_Witness ==
  /\ pc = "converted"
  /\ Cardinality(EpsReach({initial_state})) >= 2
  /\ Ascending(EpsReach({initial_state}))[1] # initial_state
  /\ result[4] # initial_state

\* C9: a word is INVALIDA if and only if one of its characters is not in the
\* alphabet, and then no simulation step is taken; the empty word is valid
\* and ACEITA exactly when the initial state is accepting.
C9_WordValidity ==
  ProcessedInput =>
    /\ results[TheWord] = "INVALIDA"
         <=> \E i \in 1..Len(TheWord) : TheWord[i] \notin Range(alphabet)
    /\ results[TheWord] = "INVALIDA" => (consumed = 0 /\ current_state = None)
    /\ TheWord = <<>> =>
         results[TheWord] =
           IF initial_state \in FinalSet THEN "ACEITA" ELSE "REJEITA"

\* an invalid word whose first symbol had a rule to follow
C9_Witness ==
  /\ ProcessedInput
  /\ Len(TheWord) = 2
  /\ TheWord[2] \notin Range(alphabet)
  /\ \E r \in RuleSet : r[1] = initial_state /\ r[2] = TheWord[1]
  /\ results[TheWord] = "INVALIDA"
  /\ consumed = 0

\* C10: when a valid word reaches a (state, symbol) pair with no rule,
\* process consumes no further symbol and gives ACEITA if the last state
\* reached is accepting, REJEITA otherwise; the symbols left over never
\* change the verdict.
C10_HaltEarly ==
  (ProcessedInput /\ is_valid_word(alphabet, TheWord)) =>
    /\ consumed \in 0..Len(TheWord)
    /\ \E p \in Paths(consumed + 1) :
         /\ p[1] = initial_state
         /\ \A i \in 1..consumed :
              p[i + 1] = transition(delta, p[i], TheWord[i])
         /\ p[consumed + 1] = current_state
    /\ consumed < Len(TheWord) =>
         transition(delta, current_state, TheWord[consumed + 1]) = None
    /\ results[TheWord] =
         IF current_state \in FinalSet THEN "ACEITA" ELSE "REJEITA"
    /\ consumed < Len(TheWord) =>
         \A w \in Words :
            ( /\ Len(w) > consumed
              /\ is_valid_word(alphabet, w)
              /\ SubSeq(w, 1, consumed + 1) = SubSeq(TheWord, 1, consumed + 1) )
            => Verdict(<<states, alphabet, delta, initial_state,
                         final_states>>, w) = results[TheWord]

\* a walk that followed a rule, then met a pair with no rule, in an
\* accepting state
C10_Witness ==
  /\ ProcessedInput
  /\ is_valid_word(alphabet, TheWord)
  /\ consumed = 1
  /\ Len(TheWord) = 2
  /\ current_state # initial_state
  /\ results[TheWord] = "ACEITA"

----------------------------------------------------------------------------
(* The loader.                                                              *)

\* line i of the file, without its surrounding white space
HeaderLine(i) == strip(file_lines[i])

DeclaredAlphabet == Range(split(HeaderLine(1)))
DeclaredStates == Range(split(HeaderLine(2)))

\* one of the six conditions on which the loader is to fail
MustFail ==
  \/ Len(file_lines) < 4
  \/ \E s \in Range(split(HeaderLine(3))) : s \notin DeclaredStates
  \/ HeaderLine(4) \notin DeclaredStates
  \/ \E i \in 5..Len(file_lines) :
       LET t == split(HeaderLine(i)) IN
       \/ Len(t) # 3
       \/ t[1] \notin DeclaredStates
       \/ t[3] \notin DeclaredStates
       \/ t[2] # <<Amp>> /\ t[2] \notin DeclaredAlphabet

\* C11: load_automata accepts four header lines followed by zero or more
\* transition lines and fails exactly when the header has fewer than 4
\* lines, an accepting or the initial state is not declared, a transition
\* line has not exactly 3 tokens, or names an undeclared state or a symbol
\* that is neither '&' nor declared; what it accepts it returns as written.
C11_LoaderFailsExactly ==
  pc # "file" =>
    /\ (pc = "raised") <=> MustFail
    /\ pc = "loaded" =>
         /\ alphabet = split(HeaderLine(1))
         /\ states = split(HeaderLine(2))
         /\ final_states = split(HeaderLine(3))
         /\ initial_state = HeaderLine(4)
         /\ delta = [i \in 1..(Len(file_lines) - 4) |->
                       split(HeaderLine(i + 4))]

----------------------------------------------------------------------------
(* The orders the conversion runs through.                                  *)

\* what convert_to_dfa returned, as sets: state names, accepting names,
\* initial name, rules
ResultSets ==
  <<Range(result[1]), Range(result[5]), result[4], Range(result[3])>>

\* the same four, from the input's rules, alphabet and accepting states
\* taken as sets: no order of the input or of the run enters
CanonicalSets ==
  << { state_to_str(S) : S \in ReachableSets },
     { state_to_str(V) : V \in { X \in ReachableSets : X \cap FinalSet # {} } },
     state_to_str(EpsReach({initial_state})),
     { <<state_to_str(c[1]), c[2], state_to_str(Step(c[1], c[2]))>> :
         c \in { d \in ReachableSets \X Range(alphabet) :
                   Step(d[1], d[2]) # {} } } >>

\* C12: the result of convert_to_dfa, taken as sets (state names, accepting
\* names, initial name, rules), is the same for every order in which
\* state-sets leave the worklist, every order of the input rules and of the
\* alphabet, and every run: it is a function of the input's sets.
C12_OrderIndependent ==
  pc = "converted" => ResultSets = CanonicalSets

\* a conversion over the alphabet "b a" in which the start set put two
\* state-sets on the worklist and the one pushed first was removed first
C12_Witness ==
  /\ pc = "converted"
  /\ alphabet = <<Symbols[2], Symbols[1]>>
  /\ Len(visited) = 5
  /\ visited[2] # visited[3]
  /\ visited[4] = visited[2]
  /\ Len(result[3]) >= 2

----------------------------------------------------------------------------
(* Calls in a row.                                                          *)

\* C13: no step of convert_to_dfa or process changes the automaton it was
\* given, and a call takes nothing from the call before: a second
\* convert_to_dfa returns what the first returned, a second process answers
\* for its own word only, and as before when the word is the same.
C13_InputUntouched ==
  [][ /\ automatonVars' = automatonVars
      /\ (pc = "convert" /\ pc' = "converted" /\ result # <<>>) =>
           result' = result
      /\ (pc = "processed" /\ pc' = "processed") =>
           /\ DOMAIN results' = Range(words')
           /\ words' = words =>
                /\ results' = results
                /\ current_state' = current_state
                /\ consumed' = consumed ]_vars

\* a second conversion that has emptied its worklist, the first one's result
\* still held, over an automaton whose start set has several states
C13_Witness ==
  /\ pc = "convert"
  /\ result # <<>>
  /\ queue = <<>>
  /\ Len(visited) >= 3
  /\ Len(new_delta) >= 1
  /\ Cardinality(new_initial_state) >= 2

----------------------------------------------------------------------------
(* The worklist.                                                            *)

\* how often the state-set S occurs in the list l
Occurrences(l, S) == Cardinality({ i \in DOMAIN l : l[i] = S })

\* C14: in convert_to_dfa no state-set is on the worklist twice, each
\* discovered state-set is recorded in visited exactly once, and when the
\* worklist is empty visited holds every state-set reachable from the start
\* set, each once: each was removed and expanded exactly once.
C14_VisitedOnce ==
  /\ NoDuplicates(queue)
  /\ NoDuplicates(visited)
  /\ pc = "converted" =>
       /\ Range(visited) = ReachableSets
       /\ \A S \in ReachableSets : Occurrences(visited, S) = 1

----------------------------------------------------------------------------
(* Termination.                                                             *)

\* C15: convert_to_dfa terminates on every automaton, '&' cycles and symbol
\* cycles included: every closure traversal empties its stack and returns
\* the closure, and the worklist becomes empty and the function returns.
C15_Terminates ==
  /\ <>(pc \in {"converted", "traversed"})
  /\ (pc = "closure") ~> (trav_stack = <<>>)
  /\ (pc = "convert") ~> (queue = <<>>)
  /\ [](pc = "traversed" => closure_out = epsilon_closure(closure_arg))

\* a conversion that returned for an automaton with a cycle of '&' rules
\* through its start set and a state-set that a symbol leads back to itself
C15_Witness ==
  /\ pc = "converted"
  /\ \E r \in RuleSet :
       r[2] = Amp /\ r[1] \in new_initial_state /\ r[1] \in EpsReach({r[3]})
  /\ \E S \in Range(visited) : \E a \in Range(alphabet) : Step(S, a) = S

----------------------------------------------------------------------------
(* The order of the rules.                                                  *)

\* rule i is for (state, symbol)
Matches(i, state, symbol) == delta[i][1] = state /\ delta[i][2] = symbol

\* dest is the destination of the first rule of the list for (state, symbol)
FirstMatch(state, symbol, dest) ==
  \E i \in DOMAIN delta :
    /\ Matches(i, state, symbol)
    /\ delta[i][3] = dest
    /\ \A j \in 1..(i - 1) : ~Matches(j, state, symbol)

\* the rule list without its '&' rules, and the rule list reversed
WithoutAmp == SelectSeq(delta, LAMBDA r : r[2] # Amp)
Reversed == [i \in DOMAIN delta |-> delta[Len(delta) + 1 - i]]

\* C16: process walks a valid word by following, at each step, the
\* destination of the first rule of the list whose origin and symbol match;
\* it stops at the first pair with no rule, answers from the state it stands
\* in, and never follows a '&' rule: without the '&' rules the answer is the
\* same.
C16_FirstMatch ==
  (ProcessedInput /\ is_valid_word(alphabet, TheWord)) =>
    /\ \E p \in Paths(consumed + 1) :
         /\ p[1] = initial_state
         /\ \A i \in 1..consumed : FirstMatch(p[i], TheWord[i], p[i + 1])
         /\ p[consumed + 1] = current_state
    /\ consumed < Len(TheWord) =>
         \A i \in DOMAIN delta :
            ~Matches(i, current_state, TheWord[consumed + 1])
    /\ results[TheWord] =
         IF current_state \in FinalSet THEN "ACEITA" ELSE "REJEITA"
    /\ results[TheWord] =
         Verdict(<<states, alphabet, WithoutAmp, initial_state,
                   final_states>>, TheWord)

\* two rules for the initial state and the word's first symbol with
\* different destinations: the first was followed, and the list reversed
\* gives the other verdict
C16_Witness ==
  /\ ProcessedInput
  /\ is_valid_word(alphabet, TheWord)
  /\ Len(delta) = 2
  /\ Len(TheWord) >= 1
  /\ Matches(1, initial_state, TheWord[1])
  /\ Matches(2, initial_state, TheWord[1])
  /\ delta[1][3] # delta[2][3]
  /\ consumed >= 1
  /\ Verdict(<<states, alphabet, Reversed, initial_state, final_states>>,
             TheWord) # results[TheWord]

----------------------------------------------------------------------------
(* Names of state-sets.                                                     *)

\* C17: state_to_str names a state-set by its members in ascending order,
\* whatever the order they were found in, and two distinct state-sets of one
\* conversion never get the same name.
C17_NamingInjective ==
  pc = "converted" =>
    \A A, B \in Range(visited) :
      /\ state_to_str(A) = join(Ascending(A))
      /\ state_to_str(A) = state_to_str(B) => A = B

----------------------------------------------------------------------------
(* The returned automaton.                                                  *)

\* C18: the automaton convert_to_dfa returns is deterministic: no rule on
\* '&', and all rules with one origin and one symbol have one destination.
C18_ResultDeterministic ==
  pc = "converted" =>
    /\ \A r \in Range(result[3]) : r[2] # Amp
    /\ \A r1, r2 \in Range(result[3]) :
         (r1[1] = r2[1] /\ r1[2] = r2[2]) => r1[3] = r2[3]

\* C19: the automaton convert_to_dfa returns for a well-formed input is
\* well-formed: its initial state and its accepting states are in its state
\* list, both ends of each rule are in its state list, and each rule's
\* symbol is in its alphabet, which is the input's.
C19_ResultWellFormed ==
  pc = "converted" =>
    /\ result[4] \in Range(result[1])
    /\ Range(result[5]) \subseteq Range(result[1])
    /\ \A r \in Range(result[3]) :
         /\ r[1] \in Range(result[1])
         /\ r[3] \in Range(result[1])
         /\ r[2] \in Range(result[2])
    /\ result[2] = alphabet
    /\ Amp \notin Range(result[2])

\* a returned automaton with several states, an accepting state that is not
\* the initial one, and rules on both symbols
C19_Witness ==
  /\ pc = "converted"
  /\ Cardinality(Range(result[1])) >= 3
  /\ \E f \in Range(result[5]) : f # result[4]
  /\ \E r1, r2 \in Range(result[3]) : r1[2] # r2[2]

----------------------------------------------------------------------------
(* Lists of words.                                                          *)

ProcessedList == pc = "processed" /\ subject = "list"

\* the verdict of the word w given to process alone
Alone(w) ==
  process(<<states, alphabet, delta, initial_state, final_states>>, <<w>>)[w]

\* C20: process maps every distinct word of its list to one verdict, the one
\* it gives the word alone, whatever words come before or after it and
\* however often it occurs.
C20_WordsIndependent ==
  ProcessedList =>
    /\ DOMAIN results = Range(words)
    /\ \A w \in Range(words) :
         /\ results[w] \in {"ACEITA", "REJEITA", "INVALIDA"}
         /\ results[w] = Alone(w)

\* two valid words with different verdicts, the first of which ended its
\* walk away from the initial state
C20_Witness ==
  /\ ProcessedList
  /\ Len(words) = 2
  /\ is_valid_word(alphabet, words[1])
  /\ is_valid_word(alphabet, words[2])
  /\ Walk(delta, words[1], 1, initial_state)[1] # initial_state
  /\ results[words[1]] # results[words[2]]
  /\ Len(words[2]) >= 1

====
